---- MODULE Spec2Model ----
(***************************************************************************)
(* A model of SDNController (src/sdn.py): the topology graph, the          *)
(* link_utilization ledger, the flow list, and the seven controller        *)
(* operations reachable from the command loop.                             *)
(***************************************************************************)
EXTENDS Integers, Sequences, FiniteSets, TLC

\* ------------------------------------------------------------------ bounds
\* Command arguments are drawn from these sets: node names, the endpoints of
\* add_link (two different nodes), the endpoints of injected flows.
Nodes == {"a", "b", "c"}
LinkEnds == {e \in Nodes \X Nodes : e[1] # e[2]}
FlowSources == {"a"}
FlowDests == {"c"}
TrafficTypes == {"data"}
MaxWeight == 3
MaxBw == 1
MaxFlows == 2
MaxDebt == 1
Weights == 1..MaxWeight
Bandwidths == 1..MaxBw

VARIABLES topology, flows, link_utilization, last

vars == <<topology, flows, link_utilization, last>>

\* ------------------------------------------------- networkx.Graph (subset)
\* An undirected edge is the set of its endpoints (a self-loop is {u});
\* G.edges maps each present edge to its weight attribute.
edge(u, v) == {u, v}

has_node(G, n) == n \in G.nodes

has_edge(G, u, v) == edge(u, v) \in DOMAIN G.edges

edge_weight(G, u, v) == G.edges[edge(u, v)]

graph_add_node(G, n) == [G EXCEPT !.nodes = @ \cup {n}]

graph_remove_node(G, n) ==
  [nodes |-> G.nodes \ {n},
   edges |-> [e \in {x \in DOMAIN G.edges : n \notin x} |-> G.edges[e]]]

graph_add_edge(G, u, v, w) ==
  [nodes |-> G.nodes \cup {u, v},
   edges |-> [e \in DOMAIN G.edges \cup {edge(u, v)} |->
                IF e = edge(u, v) THEN w ELSE G.edges[e]]]

graph_remove_edge(G, u, v) ==
  [G EXCEPT !.edges = [e \in DOMAIN G.edges \ {edge(u, v)} |-> G.edges[e]]]

\* ------------------------------------------------------ dict helpers
dict_set(d, k, x) == [j \in DOMAIN d \cup {k} |-> IF j = k THEN x ELSE d[j]]

dict_pop(d, k) == [j \in DOMAIN d \ {k} |-> d[j]]

dict_get(d, k, default) == IF k \in DOMAIN d THEN d[k] ELSE default

\* ------------------------------------------- nx.all_shortest_paths (dijkstra)
\* dist: finalized distances; seen: tentative distances (fringe = seen \ dist).
RECURSIVE dijkstra(_, _, _)
dijkstra(G, dist, seen) ==
  LET fringe == DOMAIN seen \ DOMAIN dist IN
  IF fringe = {} THEN dist
  ELSE
    LET v == CHOOSE x \in fringe : \A y \in fringe : seen[x] <= seen[y]
        nd == dict_set(dist, v, seen[v])
        nbrs == {u \in G.nodes : has_edge(G, v, u) /\ u \notin DOMAIN nd}
        better == {u \in nbrs : u \notin DOMAIN seen
                                \/ seen[v] + edge_weight(G, v, u) < seen[u]}
        ns == [u \in DOMAIN seen \cup better |->
                 IF u \in better THEN seen[v] + edge_weight(G, v, u) ELSE seen[u]]
    IN dijkstra(G, nd, ns)

\* pred[n]: the neighbours through which a minimum-weight route reaches n.
predecessors(G, dist, n) ==
  {v \in DOMAIN dist : has_edge(G, v, n)
                       /\ dist[v] + edge_weight(G, v, n) = dist[n]}

RECURSIVE build_paths(_, _, _, _, _)
build_paths(G, dist, src, n, visited) ==
  IF n = src THEN {<<src>>}
  ELSE UNION {{Append(p, n) : p \in build_paths(G, dist, src, v, visited \cup {v})} :
                v \in predecessors(G, dist, n) \ visited}

\* The set of paths all_shortest_paths yields; {} stands for NetworkXNoPath.
all_shortest_paths(G, src, dst) ==
  LET dist == dijkstra(G, << >>, [x \in {src} |-> 0]) IN
  IF dst \notin DOMAIN dist THEN {}
  ELSE build_paths(G, dist, src, dst, {dst})

\* ------------------------------------------------------------ compute_path
RECURSIVE path_utilization(_, _, _)
path_utilization(util, p, i) ==
  IF i >= Len(p) THEN 0
  ELSE dict_get(util, <<p[i], p[i + 1]>>, 0) + path_utilization(util, p, i + 1)

\* compute_path without the sort by utilization.
compute_path_unsorted(G, util, src, dst, traffic_type) ==
  IF ~has_node(G, src) \/ ~has_node(G, dst) THEN {}
  ELSE all_shortest_paths(G, src, dst)

\* The paths the sort can leave in front: the least-utilized minimum-weight
\* paths (the order among equal keys is the enumeration order of networkx).
\* {} stands for None.
compute_path(G, util, src, dst, traffic_type) ==
  IF ~has_node(G, src) \/ ~has_node(G, dst) THEN {}
  ELSE
    LET paths == all_shortest_paths(G, src, dst) IN
    {p \in paths : \A q \in paths :
        path_utilization(util, p, 1) <= path_utilization(util, q, 1)}

\* --------------------------------------------------- ledger updates on a path
\* The unguarded "+=" loops: a missing key raises KeyError and stops the loop.
RECURSIVE reserve(_, _, _, _)
reserve(util, p, bw, i) ==
  IF i >= Len(p) THEN [util |-> util, err |-> FALSE]
  ELSE
    LET uv == <<p[i], p[i + 1]>>
        vu == <<p[i + 1], p[i]>>
    IN IF uv \notin DOMAIN util THEN [util |-> util, err |-> TRUE]
       ELSE LET u1 == [util EXCEPT ![uv] = @ + bw] IN
            IF vu \notin DOMAIN u1 THEN [util |-> u1, err |-> TRUE]
            ELSE reserve([u1 EXCEPT ![vu] = @ + bw], p, bw, i + 1)

\* The guarded "-=" loop of simulate_link_failure.
RECURSIVE release(_, _, _, _)
release(util, p, bw, i) ==
  IF i >= Len(p) THEN util
  ELSE
    LET ab == <<p[i], p[i + 1]>>
        ba == <<p[i + 1], p[i]>>
        u1 == IF ab \in DOMAIN util THEN [util EXCEPT ![ab] = @ - bw] ELSE util
        u2 == IF ba \in DOMAIN u1 THEN [u1 EXCEPT ![ba] = @ - bw] ELSE u1
    IN release(u2, p, bw, i + 1)

in_path(n, p) == \E i \in 1..Len(p) : p[i] = n

\* ------------------------------------------------------------------- state
\* last: what the latest command printed. A command that changed state is
\* recorded with its arguments (n: the weight or the bandwidth), the path it
\* chose and, for a link failure, the indices of the flows it reported as
\* reconfigured and as left without a backup path; a rejected command is
\* recorded by its name and its error alone.
NoPath == << >>

Result(op, u, v, n, res, path, rerouted, unroutable) ==
  [op |-> op, u |-> u, v |-> v, n |-> n, res |-> res, path |-> path,
   rerouted |-> rerouted, unroutable |-> unroutable]

Rejected(op, res) == Result(op, "", "", 0, res, NoPath, {}, {})

Init ==
  /\ topology = [nodes |-> {}, edges |-> << >>]
  /\ flows = << >>
  /\ link_utilization = << >>
  /\ last = Result("init", "", "", 0, "ok", NoPath, {}, {})

\* ---------------------------------------------------------------- add_node
add_node(node) ==
  IF has_node(topology, node)
  THEN /\ last' = Rejected("add_node", "AlreadyExists")
       /\ UNCHANGED <<topology, flows, link_utilization>>
  ELSE /\ topology' = graph_add_node(topology, node)
       /\ last' = Result("add_node", node, node, 0, "ok", NoPath, {}, {})
       /\ UNCHANGED <<flows, link_utilization>>

\* ------------------------------------------------------------- remove_node
\* remove_node also dropping the flows whose path goes through the node.
remove_node_purging_flows(node) ==
  IF ~has_node(topology, node)
  THEN /\ last' = Rejected("remove_node", "NotFound")
       /\ UNCHANGED <<topology, flows, link_utilization>>
  ELSE /\ topology' = graph_remove_node(topology, node)
       /\ flows' = SelectSeq(flows, LAMBDA f : ~in_path(node, f.path))
       /\ last' = Result("remove_node", node, node, 0, "ok", NoPath, {}, {})
       /\ UNCHANGED link_utilization

remove_node(node) ==
  IF ~has_node(topology, node)
  THEN /\ last' = Rejected("remove_node", "NotFound")
       /\ UNCHANGED <<topology, flows, link_utilization>>
  ELSE /\ topology' = graph_remove_node(topology, node)
       /\ last' = Result("remove_node", node, node, 0, "ok", NoPath, {}, {})
       /\ UNCHANGED <<flows, link_utilization>>

\* ---------------------------------------------------------------- add_link
\* add_link_utilization keeping the value of an entry that already exists.
add_link_utilization_keep(util, u, v) ==
  LET u1 == IF <<u, v>> \in DOMAIN util THEN util ELSE dict_set(util, <<u, v>>, 0)
  IN IF <<v, u>> \in DOMAIN u1 THEN u1 ELSE dict_set(u1, <<v, u>>, 0)

\* add_link_utilization creating the (u, v) entry alone.
add_link_utilization_one_way(util, u, v) == dict_set(util, <<u, v>>, 0)

add_link_utilization(util, u, v) == dict_set(dict_set(util, <<u, v>>, 0), <<v, u>>, 0)

\* add_link creating the ledger entries before it looks at the endpoints.
add_link_entries_first(u, v, weight) ==
  IF ~has_node(topology, u) \/ ~has_node(topology, v)
  THEN /\ last' = Rejected("add_link", "NodeMissing")
       /\ link_utilization' = add_link_utilization(link_utilization, u, v)
       /\ UNCHANGED <<topology, flows>>
  ELSE /\ topology' = graph_add_edge(topology, u, v, weight)
       /\ link_utilization' = add_link_utilization(link_utilization, u, v)
       /\ last' = Result("add_link", u, v, weight, "ok", NoPath, {}, {})
       /\ UNCHANGED flows

add_link(u, v, weight) ==
  IF ~has_node(topology, u) \/ ~has_node(topology, v)
  THEN /\ last' = Rejected("add_link", "NodeMissing")
       /\ UNCHANGED <<topology, flows, link_utilization>>
  ELSE /\ topology' = graph_add_edge(topology, u, v, weight)
       /\ link_utilization' = add_link_utilization(link_utilization, u, v)
       /\ last' = Result("add_link", u, v, weight, "ok", NoPath, {}, {})
       /\ UNCHANGED flows

\* ------------------------------------------------------------- remove_link
\* remove_link_utilization dropping the (u, v) entry alone.
remove_link_utilization_one_way(util, u, v) == dict_pop(util, <<u, v>>)

remove_link_utilization(util, u, v) == dict_pop(dict_pop(util, <<u, v>>), <<v, u>>)

remove_link(u, v) ==
  IF ~has_edge(topology, u, v)
  THEN /\ last' = Rejected("remove_link", "NotFound")
       /\ UNCHANGED <<topology, flows, link_utilization>>
  ELSE /\ topology' = graph_remove_edge(topology, u, v)
       /\ link_utilization' = remove_link_utilization(link_utilization, u, v)
       /\ last' = Result("remove_link", u, v, 0, "ok", NoPath, {}, {})
       /\ UNCHANGED flows

\* ----------------------------------------------------- inject_traffic_flow
Flow(src, dst, traffic_type, bandwidth, path) ==
  [src |-> src, dst |-> dst, type |-> traffic_type, bandwidth |-> bandwidth,
   path |-> path]

\* inject_utilization updating only the (u, v) entry of each edge.
inject_utilization_one_way(util, path, bandwidth) ==
  [util |-> [k \in DOMAIN util |->
               IF \E i \in 1..(Len(path) - 1) : k = <<path[i], path[i + 1]>>
               THEN util[k] + bandwidth ELSE util[k]],
   err |-> FALSE]

inject_utilization(util, path, bandwidth) == reserve(util, path, bandwidth, 1)

\* The flow record is built and stored, and the ledger updated, once a path
\* has been found.
admit(src, dst, traffic_type, bandwidth, path) ==
  LET r == inject_utilization(link_utilization, path, bandwidth) IN
  /\ flows' = Append(flows, Flow(src, dst, traffic_type, bandwidth, path))
  /\ link_utilization' = r.util
  /\ last' = Result("inject_traffic_flow", src, dst, bandwidth,
                    IF r.err THEN "KeyError" ELSE "ok", path, {}, {})
  /\ UNCHANGED topology

\* inject_traffic_flow storing the flow record before the path is looked at.
inject_traffic_flow_store_first(src, dst, traffic_type, bandwidth) ==
  IF ~has_node(topology, src) \/ ~has_node(topology, dst)
  THEN /\ last' = Rejected("inject_traffic_flow", "NodeMissing")
       /\ UNCHANGED <<topology, flows, link_utilization>>
  ELSE
    LET choices == compute_path(topology, link_utilization, src, dst, traffic_type) IN
    IF choices = {}
    THEN /\ Len(flows) < MaxFlows
         /\ flows' = Append(flows, Flow(src, dst, traffic_type, bandwidth, NoPath))
         /\ last' = Rejected("inject_traffic_flow", "NoRoute")
         /\ UNCHANGED <<topology, link_utilization>>
    ELSE /\ Len(flows) < MaxFlows
         /\ \E path \in choices : admit(src, dst, traffic_type, bandwidth, path)

inject_traffic_flow(src, dst, traffic_type, bandwidth) ==
  IF ~has_node(topology, src) \/ ~has_node(topology, dst)
  THEN /\ last' = Rejected("inject_traffic_flow", "NodeMissing")
       /\ UNCHANGED <<topology, flows, link_utilization>>
  ELSE
    LET choices == compute_path(topology, link_utilization, src, dst, traffic_type) IN
    IF choices = {}
    THEN /\ last' = Rejected("inject_traffic_flow", "NoRoute")
         /\ UNCHANGED <<topology, flows, link_utilization>>
    ELSE /\ Len(flows) < MaxFlows
         /\ \E path \in choices : admit(src, dst, traffic_type, bandwidth, path)

\* --------------------------------------------------- simulate_link_failure
\* affected testing that u and v are neighbours on the path.
affected_adjacent(flow, u, v) ==
  \E i \in 1..(Len(flow.path) - 1) : {flow.path[i], flow.path[i + 1]} = {u, v}

affected(flow, u, v) == in_path(u, flow.path) /\ in_path(v, flow.path)

\* release_flow with the "-=" loop left out.
release_flow_skipped(util, flow) == util

\* release_flow debiting only the forward direction of each edge.
release_flow_forward_only(util, flow) ==
  [k \in DOMAIN util |->
     IF \E i \in 1..(Len(flow.path) - 1) : k = <<flow.path[i], flow.path[i + 1]>>
     THEN util[k] - flow.bandwidth ELSE util[k]]

release_flow(util, flow) == release(util, flow.path, flow.bandwidth, 1)

\* readmit_flow crediting only the forward direction of each edge.
readmit_flow_forward_only(util, new_path, bandwidth) ==
  [util |-> [k \in DOMAIN util |->
               IF \E i \in 1..(Len(new_path) - 1) : k = <<new_path[i], new_path[i + 1]>>
               THEN util[k] + bandwidth ELSE util[k]],
   err |-> FALSE]

readmit_flow(util, new_path, bandwidth) == reserve(util, new_path, bandwidth, 1)

RECURSIVE reroute_flows(_, _, _, _, _)

\* reroute_flows storing the result of compute_path before testing it: a flow
\* without a new path loses its stored path.
reroute_flows_storing_none(G, u, v, i, st) ==
  IF i > Len(st.flows) THEN {st}
  ELSE
    LET flow == st.flows[i] IN
    IF ~affected(flow, u, v) THEN reroute_flows(G, u, v, i + 1, st)
    ELSE
      LET released == release_flow(st.util, flow)
          choices == compute_path(G, released, flow.src, flow.dst, flow.type)
      IN
      IF choices = {}
      THEN reroute_flows(G, u, v, i + 1,
                         [st EXCEPT !.util = released, !.unroutable = @ \cup {i},
                                    !.flows[i].path = NoPath])
      ELSE UNION {
             LET r == readmit_flow(released, new_path, flow.bandwidth)
                 st2 == [util |-> r.util,
                         flows |-> [st.flows EXCEPT ![i].path = new_path],
                         rerouted |-> st.rerouted \cup {i},
                         unroutable |-> st.unroutable,
                         err |-> r.err]
             IN IF r.err THEN {st2} ELSE reroute_flows(G, u, v, i + 1, st2)
             : new_path \in choices}

\* The loop over self.flows from index i on; st carries the ledger, the flow
\* list and what has been printed so far. The result is the set of states the
\* loop can end in (one per choice among equally utilized shortest paths).
reroute_flows(G, u, v, i, st) ==
  IF i > Len(st.flows) THEN {st}
  ELSE
    LET flow == st.flows[i] IN
    IF ~affected(flow, u, v) THEN reroute_flows(G, u, v, i + 1, st)
    ELSE
      LET released == release_flow(st.util, flow)
          choices == compute_path(G, released, flow.src, flow.dst, flow.type)
      IN
      IF choices = {}
      THEN reroute_flows(G, u, v, i + 1,
                         [st EXCEPT !.util = released, !.unroutable = @ \cup {i}])
      ELSE UNION {
             LET r == readmit_flow(released, new_path, flow.bandwidth)
                 st2 == [util |-> r.util,
                         flows |-> [st.flows EXCEPT ![i].path = new_path],
                         rerouted |-> st.rerouted \cup {i},
                         unroutable |-> st.unroutable,
                         err |-> r.err]
             IN IF r.err THEN {st2} ELSE reroute_flows(G, u, v, i + 1, st2)
             : new_path \in choices}

simulate_link_failure(u, v) ==
  IF ~has_edge(topology, u, v)
  THEN /\ last' = Rejected("simulate_link_failure", "NotFound")
       /\ UNCHANGED <<topology, flows, link_utilization>>
  ELSE
    LET G == graph_remove_edge(topology, u, v)
        st0 == [util |-> remove_link_utilization(link_utilization, u, v),
                flows |-> flows, rerouted |-> {}, unroutable |-> {}, err |-> FALSE]
    IN \E st \in reroute_flows(G, u, v, 1, st0) :
         /\ \A k \in DOMAIN st.util : st.util[k] >= 0 - MaxDebt
         /\ topology' = G
         /\ link_utilization' = st.util
         /\ flows' = st.flows
         /\ last' = Result("simulate_link_failure", u, v, 0,
                           IF st.err THEN "KeyError" ELSE "ok", NoPath,
                           st.rerouted, st.unroutable)

\* ----------------------------------------------------------- query_routing
\* query_routing reserving one unit of bandwidth on the path it reports.
query_routing_reserving(src, dst) ==
  IF ~has_node(topology, src) \/ ~has_node(topology, dst)
  THEN /\ last' = Rejected("query_routing", "NodeMissing")
       /\ UNCHANGED <<topology, flows, link_utilization>>
  ELSE LET choices == compute_path(topology, link_utilization, src, dst, "data") IN
       IF choices = {}
       THEN /\ last' = Rejected("query_routing", "NoRoute")
            /\ UNCHANGED <<topology, flows, link_utilization>>
       ELSE \E path \in choices :
              /\ last' = Result("query_routing", src, dst, 0, "ok", path, {}, {})
              /\ link_utilization' = reserve(link_utilization, path, 1, 1).util
              /\ UNCHANGED <<topology, flows>>

query_routing(src, dst) ==
  /\ IF ~has_node(topology, src) \/ ~has_node(topology, dst)
     THEN last' = Rejected("query_routing", "NodeMissing")
     ELSE LET choices == compute_path(topology, link_utilization, src, dst, "data") IN
          IF choices = {}
          THEN last' = Rejected("query_routing", "NoRoute")
          ELSE \E path \in choices :
                 last' = Result("query_routing", src, dst, 0, "ok", path, {}, {})
  /\ UNCHANGED <<topology, flows, link_utilization>>

Next ==
  \/ \E n \in Nodes : add_node(n)
  \/ \E n \in Nodes : remove_node(n)
  \/ \E e \in LinkEnds, w \in Weights : add_link(e[1], e[2], w)
  \/ \E u, v \in Nodes : remove_link(u, v)
  \/ \E src \in FlowSources, dst \in FlowDests, t \in TrafficTypes, bw \in Bandwidths :
       inject_traffic_flow(src, dst, t, bw)
  \/ \E u, v \in Nodes : simulate_link_failure(u, v)
  \/ \E src, dst \in Nodes : query_routing(src, dst)

Spec == Init /\ [][Next]_vars

\* ------------------------------------------------- runs without removals
\* The command loop driven only by add node, add link on a link that does not
\* exist yet, inject traffic, query routing and simulate link failure, the
\* last only when every flow it releases finds a new path.
add_link_new(u, v, weight) == ~has_edge(topology, u, v) /\ add_link(u, v, weight)

simulate_link_failure_rerouting(u, v) ==
  simulate_link_failure(u, v) /\ last'.unroutable = {}

NextExact ==
  \/ \E n \in Nodes : add_node(n)
  \/ \E e \in LinkEnds, w \in Weights : add_link_new(e[1], e[2], w)
  \/ \E src \in FlowSources, dst \in FlowDests, t \in TrafficTypes, bw \in Bandwidths :
       inject_traffic_flow(src, dst, t, bw)
  \/ \E u, v \in Nodes : simulate_link_failure_rerouting(u, v)
  \/ \E src, dst \in Nodes : query_routing(src, dst)

SpecExact == Init /\ [][NextExact]_vars

\* ================================================================ properties
\* Reference notions, stated without the search: every route (a walk over
\* existing links that repeats no node) is enumerated by extension.
IsRoute(G, p, src, dst) ==
  /\ Len(p) >= 1 /\ p[1] = src /\ p[Len(p)] = dst
  /\ \A i \in 1..Len(p) : has_node(G, p[i])
  /\ \A i, j \in 1..Len(p) : i # j => p[i] # p[j]
  /\ \A i \in 1..(Len(p) - 1) : has_edge(G, p[i], p[i + 1])

RECURSIVE RoutesFrom(_, _, _)
RoutesFrom(G, p, dst) ==
  IF p[Len(p)] = dst THEN {p}
  ELSE UNION {RoutesFrom(G, Append(p, n), dst) :
                n \in {x \in G.nodes : has_edge(G, p[Len(p)], x)
                                        /\ \A i \in 1..Len(p) : p[i] # x}}

Routes(G, src, dst) ==
  IF has_node(G, src) /\ has_node(G, dst) THEN RoutesFrom(G, <<src>>, dst) ELSE {}

RECURSIVE RouteWeight(_, _, _)
RouteWeight(G, p, i) ==
  IF i >= Len(p) THEN 0 ELSE edge_weight(G, p[i], p[i + 1]) + RouteWeight(G, p, i + 1)

RECURSIVE RouteLoad(_, _, _)
RouteLoad(util, p, i) ==
  IF i >= Len(p) THEN 0
  ELSE (IF <<p[i], p[i + 1]>> \in DOMAIN util THEN util[<<p[i], p[i + 1]>>] ELSE 0)
       + RouteLoad(util, p, i + 1)

MinWeightRoutes(G, src, dst) ==
  LET routes == Routes(G, src, dst) IN
  {p \in routes : \A q \in routes : RouteWeight(G, p, 1) <= RouteWeight(G, q, 1)}

C1_WitnessLighter ==
  /\ last.op = "inject_traffic_flow" /\ last.res = "ok"
  /\ last.path = <<"a", "b", "c">>
  /\ has_edge(topology, "a", "c")
  /\ edge_weight(topology, "a", "c") > RouteWeight(topology, last.path, 1)

\* The ordered pair k is one direction of an edge that path p steps over.
OnPath(k, p) ==
  \E i \in 1..(Len(p) - 1) : k = <<p[i], p[i + 1]>> \/ k = <<p[i + 1], p[i]>>

\* Path p has u and v as consecutive nodes, in either order.
Traverses(p, u, v) ==
  \E i \in 1..(Len(p) - 1) : {p[i], p[i + 1]} = {u, v}

\* The bandwidth of the flows of fl with an index in S whose path steps over k.
RECURSIVE Load(_, _, _)
Load(fl, S, k) ==
  IF S = {} THEN 0
  ELSE LET i == CHOOSE x \in S : TRUE IN
       (IF OnPath(k, fl[i].path) THEN fl[i].bandwidth ELSE 0) + Load(fl, S \ {i}, k)

Injected == last.op = "inject_traffic_flow" /\ last.res = "ok"

InjectRejected ==
  last.op = "inject_traffic_flow" /\ last.res \in {"NodeMissing", "NoRoute"}

LinkFailed == last.op = "simulate_link_failure" /\ last.res = "ok"

\* C2: a successful inject_traffic_flow appends exactly one flow record with
\* the given src, dst, type, bandwidth and the selected path; both ledger
\* entries of every edge of that path grow by exactly the bandwidth; every other
\* ledger entry, the topology and the flows stored before are unchanged.
C2_InjectEffect ==
  [][Injected' =>
       /\ Len(flows') = Len(flows) + 1
       /\ \A i \in 1..Len(flows) : flows'[i] = flows[i]
       /\ \E t \in TrafficTypes :
            flows'[Len(flows')] = Flow(last'.u, last'.v, t, last'.n, last'.path)
       /\ IsRoute(topology, last'.path, last'.u, last'.v)
       /\ topology' = topology
       /\ DOMAIN link_utilization' = DOMAIN link_utilization
       /\ \A k \in DOMAIN link_utilization :
            link_utilization'[k] =
              link_utilization[k] + (IF OnPath(k, last'.path) THEN last'.n ELSE 0)
       /\ \A i \in 1..(Len(last'.path) - 1) :
            /\ <<last'.path[i], last'.path[i + 1]>> \in DOMAIN link_utilization
            /\ <<last'.path[i + 1], last'.path[i]>> \in DOMAIN link_utilization]_vars

\* C2 witness: a second flow has just been admitted on a two-hop path while
\* the first flow is stored on the direct link.
C2_Witness ==
  /\ Injected
  /\ Len(flows) = 2
  /\ Len(last.path) = 3
  /\ flows[1].path = <<"a", "c">>
  /\ link_utilization[<<"a", "c">>] = flows[1].bandwidth
  /\ link_utilization[<<"b", "a">>] = last.n

\* C3: an inject_traffic_flow that is rejected (an endpoint is absent, or no
\* route exists) leaves the flow list, the ledger and the topology as they were.
C3_InjectRejected ==
  [][InjectRejected' => UNCHANGED <<topology, flows, link_utilization>>]_vars

\* C3 witness: an injection was refused for want of a route while a flow is
\* stored and the ledger holds a reservation.
C3_Witness ==
  /\ last.op = "inject_traffic_flow" /\ last.res = "NoRoute"
  /\ Len(flows) >= 1
  /\ \E k \in DOMAIN link_utilization : link_utilization[k] > 0

\* The flows simulate_link_failure(u, v) releases: both u and v occur in the
\* stored path; and those among them that still have a route afterwards.
AffectedFlows(fl, u, v) ==
  {i \in 1..Len(fl) : in_path(u, fl[i].path) /\ in_path(v, fl[i].path)}

Reroutable(G, fl, u, v) ==
  {i \in AffectedFlows(fl, u, v) : Routes(G, fl[i].src, fl[i].dst) # {}}

\* The ledger after simulate_link_failure(u, v): the failed link's entries are
\* gone; each remaining entry has lost the bandwidth of every released flow
\* whose old path steps over it and gained the bandwidth of every rerouted
\* flow whose new path steps over it.
LedgerAfterFailure(u, v) ==
  /\ DOMAIN link_utilization' = DOMAIN link_utilization \ {<<u, v>>, <<v, u>>}
  /\ \A k \in DOMAIN link_utilization' :
       link_utilization'[k] =
         link_utilization[k]
           - Load(flows, AffectedFlows(flows, u, v), k)
           + Load(flows', Reroutable(topology', flows, u, v), k)

\* C4: after simulate_link_failure(u, v) on an existing link, every flow whose
\* stored path had u-v as a hop and whose endpoints are still connected is
\* stored with a minimum-weight route of the new topology (which has no u-v
\* link); its bandwidth has left the surviving entries of its old path and
\* been added to both entries of every edge of its new path, and the failed
\* link has no ledger entry.
C4_Reroute ==
  [][LinkFailed' =>
       /\ ~has_edge(topology', last'.u, last'.v)
       /\ Len(flows') = Len(flows)
       /\ \A i \in 1..Len(flows) :
            (/\ Traverses(flows[i].path, last'.u, last'.v)
             /\ Routes(topology', flows[i].src, flows[i].dst) # {})
            => /\ i \in last'.rerouted
               /\ flows'[i] = [flows[i] EXCEPT !.path = flows'[i].path]
               /\ flows'[i].path \in
                    MinWeightRoutes(topology', flows[i].src, flows[i].dst)
               /\ ~Traverses(flows'[i].path, last'.u, last'.v)
       /\ LedgerAfterFailure(last'.u, last'.v)]_vars

\* C4 witness: the a-b-c scenario. The flow stored on [a, b, c] has just been
\* moved to [a, c] by the failure of a-b.
C4_Witness ==
  /\ LinkFailed /\ last.u = "a" /\ last.v = "b"
  /\ last.rerouted = {1}
  /\ flows[1].path = <<"a", "c">>
  /\ link_utilization[<<"a", "c">>] = flows[1].bandwidth
  /\ link_utilization[<<"c", "a">>] = flows[1].bandwidth
  /\ link_utilization[<<"b", "c">>] = 0
  /\ link_utilization[<<"c", "b">>] = 0
  /\ <<"a", "b">> \notin DOMAIN link_utilization

\* C5: after simulate_link_failure(u, v), every flow whose stored path holds
\* both u and v and whose endpoints are no longer connected stays in the list
\* with its record unchanged (the stale path), is reported as having no backup
\* path and not as reconfigured; its bandwidth has left every entry of its old
\* path that still exists and nothing has been added for it.
C5_Unroutable ==
  [][LinkFailed' =>
       /\ \A i \in AffectedFlows(flows, last'.u, last'.v) :
            Routes(topology', flows[i].src, flows[i].dst) = {}
            => /\ i <= Len(flows')
               /\ flows'[i] = flows[i]
               /\ i \in last'.unroutable
               /\ i \notin last'.rerouted
       /\ last'.unroutable \subseteq AffectedFlows(flows, last'.u, last'.v)
       /\ \A k \in DOMAIN link_utilization' :
            Reroutable(topology', flows, last'.u, last'.v) = {}
            => link_utilization'[k] =
                 link_utilization[k]
                   - Load(flows, AffectedFlows(flows, last'.u, last'.v), k)]_vars

\* C5 witness: the failure of a-b has left the flow on [a, b, c] without a
\* route; its path is stale and its reservation on b-c has been released.
C5_Witness ==
  /\ LinkFailed /\ last.u = "a" /\ last.v = "b"
  /\ last.unroutable = {1}
  /\ flows[1].path = <<"a", "b", "c">>
  /\ ~has_edge(topology, "a", "b")
  /\ has_edge(topology, "b", "c")
  /\ link_utilization[<<"b", "c">>] = 0

\* C6: a ledger entry for (u, v) exists if and only if the link {u, v} exists.
C6_LedgerIffLink ==
  \A u, v \in Nodes :
    (<<u, v>> \in DOMAIN link_utilization) <=> has_edge(topology, u, v)

\* C7: remove_node on an existing node removes the node, every link incident to
\* it and both ledger entries of each of those links; on an absent node it
\* changes nothing.
C7_RemoveNode ==
  [][last'.op = "remove_node" =>
       IF last'.res = "ok"
       THEN /\ topology'.nodes = topology.nodes \ {last'.u}
            /\ \A e \in DOMAIN topology'.edges : last'.u \notin e
            /\ \A k \in DOMAIN link_utilization' : k[1] # last'.u /\ k[2] # last'.u
       ELSE UNCHANGED <<topology, flows, link_utilization>>]_vars

\* C8: every ledger value is non-negative.
C8_NonNegative ==
  \A k \in DOMAIN link_utilization : link_utilization[k] >= 0

\* C9: for every existing link {u, v}, the ledger value for (u, v) equals the
\* sum of the bandwidths of the stored flows whose path has u-v as a hop.
C9_LedgerIsFlowSum ==
  \A u, v \in Nodes :
    has_edge(topology, u, v)
      => link_utilization[<<u, v>>] = Load(flows, 1..Len(flows), <<u, v>>)

\* C9 as amended: for every existing link {u, v}, the ledger value for (u, v)
\* is at most the sum of the bandwidths of the stored flows whose path has u-v
\* as a hop.
C9_LedgerAtMostFlowSum ==
  \A u, v \in Nodes :
    has_edge(topology, u, v)
      => link_utilization[<<u, v>>] <= Load(flows, 1..Len(flows), <<u, v>>)

\* C9 witness: two flows are stored on the direct link a-c, whose entries hold
\* the sum of their bandwidths.
C9_Witness ==
  /\ Len(flows) = 2
  /\ flows[1].path = <<"a", "c">> /\ flows[2].path = <<"a", "c">>
  /\ has_edge(topology, "a", "c")
  /\ link_utilization[<<"a", "c">>] = flows[1].bandwidth + flows[2].bandwidth

\* C10: right after an add_link(u, v, w) whose endpoints both exist, the ledger
\* entries (u, v) and (v, u) exist and are 0, whatever they held before.
C10_AddLinkResets ==
  (last.op = "add_link" /\ last.res = "ok")
    => /\ has_edge(topology, last.u, last.v)
       /\ edge_weight(topology, last.u, last.v) = last.n
       /\ <<last.u, last.v>> \in DOMAIN link_utilization
       /\ <<last.v, last.u>> \in DOMAIN link_utilization
       /\ link_utilization[<<last.u, last.v>>] = 0
       /\ link_utilization[<<last.v, last.u>>] = 0

\* C10 witness: add_link has just been issued on a link that a stored flow
\* has as a hop of its path.
C10_Witness ==
  /\ last.op = "add_link" /\ last.res = "ok"
  /\ \E i \in 1..Len(flows) : Traverses(flows[i].path, last.u, last.v)
  /\ link_utilization[<<last.u, last.v>>] = 0

\* C11: after simulate_link_failure(u, v) on an existing link, the link is no
\* longer in the topology and neither of its ledger entries exists, whether or
\* not a flow was released and whether or not every released flow found a
\* new path; nothing else of the topology has changed.
C11_FailRemovesLink ==
  [][LinkFailed' =>
       /\ has_edge(topology, last'.u, last'.v)
       /\ ~has_edge(topology', last'.u, last'.v)
       /\ topology'.nodes = topology.nodes
       /\ DOMAIN topology'.edges = DOMAIN topology.edges \ {{last'.u, last'.v}}
       /\ \A e \in DOMAIN topology'.edges : topology'.edges[e] = topology.edges[e]
       /\ <<last'.u, last'.v>> \notin DOMAIN link_utilization'
       /\ <<last'.v, last'.u>> \notin DOMAIN link_utilization']_vars

\* C11 witness: a link has just failed that no stored flow has both ends of
\* on its path; the flow list is not empty.
C11_Witness ==
  /\ LinkFailed
  /\ Len(flows) >= 1
  /\ last.rerouted = {} /\ last.unroutable = {}
  /\ ~has_edge(topology, last.u, last.v)
  /\ <<last.u, last.v>> \notin DOMAIN link_utilization

\* C11 second case: the failed link is gone although a released flow was left
\* without a route.
C11_WitnessUnroutable ==
  /\ LinkFailed
  /\ last.unroutable # {}
  /\ ~has_edge(topology, last.u, last.v)
  /\ <<last.v, last.u>> \notin DOMAIN link_utilization

\* Two routes share no link.
Disjoint(p, q) ==
  \A i \in 1..(Len(p) - 1) : ~Traverses(q, p[i], p[i + 1])

\* The state right after a first flow was admitted between the endpoints of
\* exactly two disjoint minimum-weight routes of equal weight, the ledger
\* having been 0 everywhere before.
FirstOfTwoAdmitted ==
  /\ Injected
  /\ Len(flows) = 1
  /\ LET best == MinWeightRoutes(topology, flows[1].src, flows[1].dst) IN
       /\ Cardinality(best) = 2
       /\ \A p, q \in best : p # q => Disjoint(p, q)
  /\ \A k \in DOMAIN link_utilization :
       link_utilization[k] = Load(flows, {1}, k)

\* C12: with two disjoint minimum-weight paths of equal weight between src and
\* dst and a ledger that is 0 everywhere, the second of two successive
\* injections between src and dst is admitted on the minimum-weight path that
\* the first one did not take.
C12_SecondFlowOtherPath ==
  [][(FirstOfTwoAdmitted /\ Injected'
        /\ last'.u = flows[1].src /\ last'.v = flows[1].dst)
     => /\ Len(flows') = 2
        /\ flows'[2].path # flows[1].path
        /\ flows'[2].path \in MinWeightRoutes(topology, flows[1].src, flows[1].dst)
        /\ flows'[1] = flows[1]]_vars

\* C12 witness: two flows between a and c are stored on the two equal-weight
\* routes [a, c] and [a, b, c], the second just admitted, and the ledger holds
\* exactly their two reservations.
C12_Witness ==
  /\ Injected
  /\ Len(flows) = 2
  /\ flows[1].path # flows[2].path
  /\ Cardinality(MinWeightRoutes(topology, "a", "c")) = 2
  /\ {flows[1].path, flows[2].path} = MinWeightRoutes(topology, "a", "c")
  /\ \A k \in DOMAIN link_utilization :
       link_utilization[k] = Load(flows, {1, 2}, k)

\* C13: query_routing changes neither the topology, nor the ledger, nor the
\* flow list, whatever it reports (a path, a missing node, no route).
C13_QueryIsPure ==
  [][last'.op = "query_routing"
       => UNCHANGED <<topology, flows, link_utilization>>]_vars

\* C13 witness: a query has just reported a two-hop path in a state that holds
\* a flow and its reservation.
C13_Witness ==
  /\ last.op = "query_routing" /\ last.res = "ok"
  /\ Len(last.path) = 3
  /\ Len(flows) >= 1
  /\ \E k \in DOMAIN link_utilization : link_utilization[k] > 0

\* C13 second and third case: a query has just reported a missing node, or no
\* route, in a state that holds a flow.
C13_WitnessRejected ==
  /\ last.op = "query_routing" /\ last.res \in {"NodeMissing", "NoRoute"}
  /\ Len(flows) >= 1

\* C14: in every step the flow list keeps every record it held, with the same
\* src, dst, type and bandwidth; it grows by one record in a successful
\* inject_traffic_flow and not at all otherwise; and a stored path changes only
\* in a simulate_link_failure that reports the flow as reconfigured, to a
\* route of the new topology.
C14_FlowsPersist ==
  [][/\ Len(flows') = Len(flows) + (IF Injected' THEN 1 ELSE 0)
     /\ \A i \in 1..Len(flows) :
          /\ flows'[i].src = flows[i].src
          /\ flows'[i].dst = flows[i].dst
          /\ flows'[i].type = flows[i].type
          /\ flows'[i].bandwidth = flows[i].bandwidth
          /\ flows'[i].path # flows[i].path
             => /\ LinkFailed'
                /\ i \in last'.rerouted
                /\ IsRoute(topology', flows'[i].path, flows[i].src, flows[i].dst)]_vars

\* C14 witness: of two stored flows, the failure of a-b has just moved the
\* first from [a, b, c] to [a, c] and left the record of the second alone.
C14_Witness ==
  /\ LinkFailed /\ last.u = "a" /\ last.v = "b"
  /\ Len(flows) = 2
  /\ last.rerouted = {1} /\ last.unroutable = {}
  /\ flows[1].path = <<"a", "c">>

\* C14 second case: a link failure has left a stored flow without a route and
\* with its stale path.
C14_WitnessStale ==
  /\ LinkFailed
  /\ \E j \in 1..Len(flows) :
       /\ j \in last.unroutable
       /\ Len(flows[j].path) >= 2
       /\ ~IsRoute(topology, flows[j].path, flows[j].src, flows[j].dst)

RejectedCommand ==
  \/ last.op = "add_node" /\ last.res = "AlreadyExists"
  \/ last.op = "remove_node" /\ last.res = "NotFound"
  \/ last.op = "add_link" /\ last.res = "NodeMissing"
  \/ last.op = "remove_link" /\ last.res = "NotFound"
  \/ last.op = "simulate_link_failure" /\ last.res = "NotFound"

\* C15: add_node of an existing node, remove_node of an absent node, add_link
\* with a missing endpoint, remove_link and simulate_link_failure of an absent
\* link leave the nodes, the links and weights, the ledger and the flow list
\* unchanged, and no command ever ends in an uncaught KeyError.
C15_RejectedChangesNothing ==
  [][/\ RejectedCommand' => UNCHANGED <<topology, flows, link_utilization>>
     /\ last'.res # "KeyError"]_vars

\* C15 witness: a link failure has just been refused for an absent link in a
\* state that holds a flow and its reservation.
C15_Witness ==
  /\ last.op = "simulate_link_failure" /\ last.res = "NotFound"
  /\ Len(flows) >= 1
  /\ \E k \in DOMAIN link_utilization : link_utilization[k] > 0

\* C15 second case: add_link has just been refused for a missing endpoint
\* while links and ledger entries exist.
C15_WitnessAddLink ==
  /\ last.op = "add_link" /\ last.res = "NodeMissing"
  /\ DOMAIN topology.edges # {}
  /\ DOMAIN link_utilization # {}

\* C16: add_node, remove_node, add_link and remove_link leave the flow list
\* as it was, accepted or not, also when a stored path goes through the node
\* or the link removed.
C16_TopologyOpsKeepFlows ==
  [][last'.op \in {"add_node", "remove_node", "add_link", "remove_link"}
       => flows' = flows]_vars

\* C16 witness: a node has just been removed that a stored path goes through.
C16_Witness ==
  /\ last.op = "remove_node" /\ last.res = "ok"
  /\ \E i \in 1..Len(flows) : in_path(last.u, flows[i].path)

\* C16 second case: a link has just been removed that a stored path has as a
\* hop.
C16_WitnessLink ==
  /\ last.op = "remove_link" /\ last.res = "ok"
  /\ \E i \in 1..Len(flows) : Traverses(flows[i].path, last.u, last.v)

\* C17: the ledger is symmetric: the entry (u, v) exists iff (v, u) exists,
\* and the two hold the same value.
C17_LedgerSymmetric ==
  \A u, v \in Nodes :
    /\ (<<u, v>> \in DOMAIN link_utilization) <=> (<<v, u>> \in DOMAIN link_utilization)
    /\ <<u, v>> \in DOMAIN link_utilization
       => link_utilization[<<u, v>>] = link_utilization[<<v, u>>]

\* C17 witness: after a link failure that released one flow for good and
\* re-admitted another, one link holds a negative value and another a positive
\* one, each the same in both directions.
C17_Witness ==
  /\ LinkFailed
  /\ \E k \in DOMAIN link_utilization :
       link_utilization[k] < 0 /\ link_utilization[<<k[2], k[1]>>] < 0
  /\ \E k \in DOMAIN link_utilization :
       link_utilization[k] > 0 /\ link_utilization[<<k[2], k[1]>>] > 0

\* C18: simulate_link_failure(u, v) releases and resubmits exactly the flows
\* whose stored path holds both u and v, neighbours or not; every other flow
\* keeps its record, and the ledger changes by the released and re-admitted
\* flows alone.
C18_MembershipSelection ==
  [][LinkFailed' =>
       /\ last'.rerouted \cup last'.unroutable =
            AffectedFlows(flows, last'.u, last'.v)
       /\ last'.rerouted \cap last'.unroutable = {}
       /\ \A i \in 1..Len(flows) :
            i \notin AffectedFlows(flows, last'.u, last'.v) => flows'[i] = flows[i]
       /\ LedgerAfterFailure(last'.u, last'.v)]_vars

\* C18 witness: the failure of the link a-c has just resubmitted the flow
\* stored on [a, b, c], which never used that link.
C18_Witness ==
  /\ LinkFailed /\ last.u = "a" /\ last.v = "c"
  /\ 1 \in last.rerouted
  /\ flows[1].path = <<"a", "b", "c">>
  /\ Len(flows) = 2 /\ 2 \in last.rerouted

\* C18 second case: the failure of a-b has left alone the flow stored on
\* [a, c], whose path lacks b.
C18_WitnessUntouched ==
  /\ LinkFailed /\ last.u = "a" /\ last.v = "b"
  /\ Len(flows) = 2
  /\ flows[2].path = <<"a", "c">>
  /\ last.rerouted \cup last.unroutable = {1}

\* C19: every link of the topology has both of its ledger entries, and neither
\* inject_traffic_flow nor simulate_link_failure has ended in a KeyError.
C19_EntriesForEveryLink ==
  /\ \A u, v \in Nodes :
       has_edge(topology, u, v)
         => <<u, v>> \in DOMAIN link_utilization /\ <<v, u>> \in DOMAIN link_utilization
  /\ last.res # "KeyError"

\* C19 witness: a flow has just been admitted on a two-hop path while the
\* ledger still holds entries of links that went with a removed node.
C19_Witness ==
  /\ Injected
  /\ Len(last.path) = 3
  /\ \E k \in DOMAIN link_utilization : ~has_edge(topology, k[1], k[2])

\* C19 second case: a flow has just been re-admitted by a link failure while
\* such entries exist.
C19_WitnessReroute ==
  /\ LinkFailed
  /\ last.rerouted # {}
  /\ \E k \in DOMAIN link_utilization :
       ~has_edge(topology, k[1], k[2]) /\ k # <<last.u, last.v>> /\ k # <<last.v, last.u>>

\* C20: in runs without removals (SpecExact), for every existing link {u, v}
\* both ledger entries equal the sum of the bandwidths of the stored flows
\* that have u-v as a hop, and every stored path is a route over existing
\* links.
C20_ExactAccounting ==
  /\ \A u, v \in Nodes :
       has_edge(topology, u, v)
         => /\ link_utilization[<<u, v>>] = Load(flows, 1..Len(flows), <<u, v>>)
            /\ link_utilization[<<v, u>>] = Load(flows, 1..Len(flows), <<u, v>>)
  /\ \A i \in 1..Len(flows) :
       IsRoute(topology, flows[i].path, flows[i].src, flows[i].dst)

\* C20 witness: a link failure has just moved a flow onto the link that the
\* other flow is stored on, whose entries hold the sum of the two bandwidths.
C20_Witness ==
  /\ LinkFailed
  /\ last.rerouted # {}
  /\ Len(flows) = 2
  /\ flows[1].path = flows[2].path
  /\ \E k \in DOMAIN link_utilization :
       link_utilization[k] = flows[1].bandwidth + flows[2].bandwidth

====
